---- MODULE Spec2Model ----
(***************************************************************************)
(* Model of sqlx-core/src/mysql/protocol/row.rs: decoding one MySQL        *)
(* result-set row (text or binary protocol) into a buffer and one optional *)
(* byte range per column.                                                  *)
(*                                                                         *)
(* Row::decode is modelled step by step: the header read, the null bitmap, *)
(* one step per column, the return.  A Rust panic (index out of bounds,    *)
(* arithmetic overflow in a build with overflow checks, unimplemented!) is *)
(* the control state "panic"; a returned Err is "err"; a returned Ok(Row)  *)
(* is "done".                                                              *)
(***************************************************************************)
EXTENDS Integers, Sequences, FiniteSets, TLC

VARIABLES
    payload,          \* decode's argument buf as received: Seq of bytes
    columns,          \* decode's argument columns: Seq of TypeId names
    binary,           \* decode's argument binary
    overflow_checks,  \* the build: TRUE panics on usize overflow, FALSE wraps
    pc,               \* position in decode / get_lenenc
    buf_pos,          \* how far the cursor `buf` has advanced into payload
    buffer,           \* Row.buffer
    values,           \* Row.values: Seq of None / Some(range)
    index,            \* the local `index` (usize)
    column_idx,       \* the loop variable (0-based)
    reads,            \* payload positions (0-based) the decoder has read
    error,            \* why decode stopped without a Row
    got,              \* the last Row::get call and its outcome
    lenenc            \* the outcome of a direct get_lenenc call

vars == <<payload, columns, binary, overflow_checks, pc, buf_pos, buffer,
          values, index, column_idx, reads, error, got, lenenc>>

(***************************************************************************)
(* Bounds of the model.                                                    *)
(***************************************************************************)
MaxLen == 3
MaxCols == 2

(***************************************************************************)
(* usize, 64 bits wide, kept as three limbs <<low 24, middle 24, high 16>> *)
(* so that sums near 2^64 are computed exactly.                            *)
(***************************************************************************)
B8 == 2 ^ 8
B16 == 2 ^ 16
B24 == 2 ^ 24

U(n) == <<n % B24, n \div B24, 0>>

IsSmall(a) == a[2] = 0 /\ a[3] = 0

N(a) == a[1]

ULt(a, b) ==
    \/ a[3] < b[3]
    \/ a[3] = b[3] /\ a[2] < b[2]
    \/ a[3] = b[3] /\ a[2] = b[2] /\ a[1] < b[1]

ULe(a, b) == a = b \/ ULt(a, b)

\* a + b on usize: the wrapped sum and whether it overflowed
UAdd(a, b) ==
    LET s0 == a[1] + b[1]
        s1 == a[2] + b[2] + (s0 \div B24)
        s2 == a[3] + b[3] + (s1 \div B24)
    IN  [val |-> <<s0 % B24, s1 % B24, s2 % B16>>, overflow |-> s2 >= B16]

(***************************************************************************)
(* byteorder::LittleEndian reads; each panics on a slice that is too short *)
(***************************************************************************)
read_u16(s) == <<s[1] + B8 * s[2], 0, 0>>

read_u24(s) == <<s[1] + B8 * s[2] + B16 * s[3], 0, 0>>

read_u64(s) ==
    <<s[1] + B8 * s[2] + B16 * s[3],
      s[4] + B8 * s[5] + B16 * s[6],
      s[7] + B8 * s[8]>>

Tail0(s, k) == SubSeq(s, k + 1, Len(s))   \* &s[k..] for k <= Len(s)

Panic(why) == [outcome |-> "panic", why |-> why, size |-> U(0), nread |-> 0]

Sized(sum, n, checks) ==
    IF sum.overflow /\ checks
    THEN [outcome |-> "panic", why |-> "overflow", size |-> U(0), nread |-> n]
    ELSE [outcome |-> "ok", why |-> "", size |-> sum.val, nread |-> n]

\* the byteorder read of a length panics when fewer than `w` bytes follow
TooShort(buf, w) == Len(buf) - 1 < w

ReadPanic == [outcome |-> "panic", why |-> "lenenc_bounds", size |-> U(0), nread |-> 1]

get_lenenc(buf, checks) ==
    IF buf = <<>> THEN Panic("lenenc_bounds")
    ELSE CASE buf[1] = 251 ->
                [outcome |-> "ok", why |-> "", size |-> U(1), nread |-> 1]
           [] buf[1] = 252 ->
                IF TooShort(buf, 2) THEN ReadPanic
                ELSE Sized(UAdd(U(1 + 2), read_u16(Tail0(buf, 1))), 3, checks)
           [] buf[1] = 253 ->
                IF TooShort(buf, 3) THEN ReadPanic
                ELSE Sized(UAdd(U(1 + 3), read_u24(Tail0(buf, 1))), 4, checks)
           [] buf[1] = 254 ->
                IF TooShort(buf, 8) THEN ReadPanic
                ELSE Sized(UAdd(U(1 + 8), read_u64(Tail0(buf, 1))), 9, checks)
           [] OTHER -> Sized(UAdd(U(1), U(buf[1])), 1, checks)

(***************************************************************************)
(* Column wire-types.  Sized are the ones the match in decode names; the   *)
(* others stand for every TypeId that falls to its last arm.               *)
(***************************************************************************)
FixedTypes == {"TINY_INT", "SMALL_INT", "INT", "BIG_INT", "DATE"}
TimeTypes == {"TIME", "TIMESTAMP", "DATETIME"}
LenencTypes == {"TINY_BLOB", "MEDIUM_BLOB", "LONG_BLOB", "CHAR", "TEXT", "VAR_CHAR"}
OtherTypes == {"FLOAT", "NULL"}
AllTypes == FixedTypes \cup TimeTypes \cup LenencTypes \cup OtherTypes

\* TypeId of a column definition's type byte (the fixture's columns)
TypeIdOf(b) ==
    CASE b = 1 -> "TINY_INT" [] b = 2 -> "SMALL_INT" [] b = 3 -> "INT"
      [] b = 4 -> "FLOAT" [] b = 6 -> "NULL" [] b = 7 -> "TIMESTAMP"
      [] b = 8 -> "BIG_INT" [] b = 10 -> "DATE" [] b = 11 -> "TIME"
      [] b = 12 -> "DATETIME" [] b = 249 -> "TINY_BLOB"
      [] b = 250 -> "MEDIUM_BLOB" [] b = 251 -> "LONG_BLOB"
      [] b = 252 -> "TEXT" [] b = 253 -> "VAR_CHAR" [] b = 254 -> "CHAR"

(***************************************************************************)
(* Row.values entries: None is <<>>, Some(start..end) is <<[start, end]>>  *)
(***************************************************************************)
None == <<>>

Some(s, e) == <<[start |-> s, end |-> e]>>

\* values.push(None) with a variant that drops the entry
PushNone_dropped(vals) == vals

PushNone(vals) == Append(vals, None)

\* values.push(Some(index..(index + size)))
PushSome(vals, s, e) == Append(vals, Some(s, e))

(***************************************************************************)
(* The size match of the binary loop (decode, the non-NULL arm).           *)
(***************************************************************************)
Fixed(n) == [outcome |-> "ok", why |-> "", size |-> U(n), nread |-> 0]

FieldSize(type, buf, idx, checks) ==
    CASE type = "TINY_INT" -> Fixed(1)
      [] type = "SMALL_INT" -> Fixed(2)
      [] type = "INT" -> Fixed(4)
      [] type = "BIG_INT" -> Fixed(8)
      [] type = "DATE" -> Fixed(5)
      [] type \in TimeTypes ->
            IF ULt(idx, U(Len(buf)))
            THEN [outcome |-> "ok", why |-> "", size |-> U(1 + buf[N(idx) + 1]),
                  nread |-> 1]
            ELSE Panic("index_bounds")
      [] type \in LenencTypes ->
            IF ULe(idx, U(Len(buf)))
            THEN get_lenenc(Tail0(buf, N(idx)), checks)
            ELSE Panic("slice_bounds")
      [] OTHER -> Panic("unimplemented")

\* null_bitmap[column_null_idx / 8] & (1 << (column_null_idx % 8)) != 0
BitSet(byte, k) == (byte \div (2 ^ k)) % 2 = 1

NullLen(n) == (n + 9) \div 8

IsNull(bitmap, col) == BitSet(bitmap[((col + 2) \div 8) + 1], (col + 2) % 8)

(***************************************************************************)
(* Inputs.  Every short payload over ByteVals with every short column list *)
(* over GenTypes, plus longer payloads that reach the wide length          *)
(* prefixes, the fixed widths, multi-byte bitmaps and the repository's     *)
(* 26-column test row.                                                     *)
(***************************************************************************)
SeqsUpTo(S, n) == UNION {[1..k -> S] : k \in 0..n}

ByteVals == {0, 1, 2, 4, 8, 252}
GenTypes == {"TINY_INT", "TIMESTAMP", "VAR_CHAR", "FLOAT"}

GenericInputs ==
    [payload : SeqsUpTo(ByteVals, MaxLen),
     columns : SeqsUpTo(GenTypes, MaxCols),
     binary : BOOLEAN]

Zeros(k) == [i \in 1..k |-> 0]

Bodies ==
    { <<254, 247, 255, 255, 255, 255, 255, 255, 255>>,
      <<254, 255, 255, 255, 255, 255, 255, 255, 255>>,
      <<0, 254, 246, 255, 255, 255, 255, 255, 255, 255>>,
      <<254, 1, 0, 0, 0, 0, 0, 0, 0, 65>>,
      <<254, 1, 0, 0, 0, 0, 0, 0>>,
      <<253, 1, 0, 0, 65>>,
      <<253, 1, 0>>,
      <<252, 1, 0, 65, 0>>,
      <<251>>,
      <<251, 251>>,
      <<1, 0, 1, 0, 0>>,
      <<1, 65, 1, 66>>,
      <<2, 7, 7, 1>>,
      <<0, 0, 0, 0, 7>>,
      Zeros(8), Zeros(9), Zeros(13) }

FixtureInputs ==
    [payload : Bodies \cup {<<0, bm>> \o b : bm \in {0, 4, 8}, b \in Bodies},
     columns : {<<t>> : t \in AllTypes}
               \cup {<<t, u>> : t \in AllTypes, u \in {"TINY_INT", "VAR_CHAR"}},
     binary : BOOLEAN]

\* nine columns, so a two-byte bitmap, over a body long enough for all of them
BitmapInputs ==
    [payload : {<<h, b1, b2>> \o Zeros(9) : h \in {0, 1}, b1 \in {0, 3, 4, 128, 255},
                                          b2 \in {0, 1, 4, 7}},
     columns : {[i \in 1..9 |-> "TINY_INT"], [i \in 1..9 |-> "VAR_CHAR"]},
     binary : {TRUE}]

\* test::null_bitmap_test: the type byte of each of the 26 column definitions
NullBitmapTestTypeBytes ==
    <<3, 253, 253, 1, 7, 7, 1, 252, 1, 252, 252, 7, 1, 3, 3, 1, 253, 3, 3, 7, 7,
      3, 3, 3, 8, 3>>

NullBitmapTestRow ==
    <<0, 64, 90, 229, 0, 4, 0, 0, 0, 4, 114, 117, 115, 116, 0, 0, 7, 228, 7, 1, 16, 8,
      10, 17, 0, 0, 4, 208, 7, 1, 1, 0, 0, 0, 0, 10, 0, 0, 0, 0, 0, 0, 0, 0, 0, 0, 0, 0,
      0, 0, 0, 0, 0, 0, 0, 0, 0, 0, 0, 0, 0, 0, 0, 0>>

NullBitmapTestInput ==
    [payload |-> NullBitmapTestRow,
     columns |-> [i \in 1..Len(NullBitmapTestTypeBytes) |->
                     TypeIdOf(NullBitmapTestTypeBytes[i])],
     binary |-> TRUE]

Inputs == GenericInputs \cup FixtureInputs \cup BitmapInputs \cup {NullBitmapTestInput}

NoGet == [index |-> -1, result |-> "none", slice |-> <<>>]

NoLenenc == [outcome |-> "none", why |-> "", size |-> U(0), nread |-> 0]

Init ==
    /\ \E inp \in Inputs :
          /\ payload = inp.payload
          /\ columns = inp.columns
          /\ binary = inp.binary
    /\ overflow_checks \in BOOLEAN
    /\ pc = "start"
    /\ buf_pos = 0
    /\ buffer = <<>>
    /\ values = <<>>
    /\ index = U(0)
    /\ column_idx = 0
    /\ reads = {}
    /\ error = ""
    /\ got = NoGet
    /\ lenenc = NoLenenc

inputs == <<payload, columns, binary, overflow_checks>>

\* decode stops at `p` (a panic or a returned Err) for the reason `why`
Stop(p, why, rd) ==
    /\ pc' = p
    /\ error' = why
    /\ reads' = rd
    /\ UNCHANGED <<inputs, buf_pos, buffer, values, index, column_idx, got, lenenc>>

Positions(from, n) == {from + k : k \in 0..(n - 1)}

(***************************************************************************)
(* The cursor primitives of crate::io::Buf on a byte slice.                *)
(***************************************************************************)
\* get_u8: the first byte (the cursor then advances by one); none to read
\* on an empty slice
get_u8(buf) ==
    IF buf = <<>> THEN [outcome |-> "panic", val |-> 0]
    ELSE [outcome |-> "ok", val |-> buf[1]]

\* advance: *self = &self[cnt..], possible only when cnt <= self.len()
CanAdvance(len, cnt) == ULe(cnt, U(len))

(***************************************************************************)
(* Text protocol.                                                          *)
(***************************************************************************)
\* lines 58-61: the whole payload becomes the buffer
TextStart ==
    /\ pc = "start" /\ ~binary
    /\ buffer' = payload
    /\ values' = <<>>
    /\ index' = U(0)
    /\ column_idx' = 0
    /\ reads' = Positions(0, Len(payload))
    /\ pc' = "text_loop"
    /\ UNCHANGED <<inputs, buf_pos, error, got, lenenc>>

\* The slice the text loop measures: &buf[index..], where buf has itself
\* been advanced by every size so far.
TextSliceStart(pos, idx) == pos + N(idx)

\* lines 63-70: one iteration of the text loop
TextColumn ==
    /\ pc = "text_loop" /\ column_idx < Len(columns)
    /\ LET bufLen == Len(payload) - buf_pos
       IN  IF ~ULe(index, U(bufLen))
           THEN Stop("panic", "slice_bounds", reads)
           ELSE LET at == TextSliceStart(buf_pos, index)
                    r == get_lenenc(Tail0(payload, at), overflow_checks)
                    sum == UAdd(index, r.size)
                    rd == reads \cup Positions(at, r.nread)
                IN  IF r.outcome = "panic" THEN Stop("panic", r.why, rd)
                    ELSE IF sum.overflow /\ overflow_checks
                    THEN Stop("panic", "overflow", rd)
                    ELSE IF ~CanAdvance(bufLen, r.size)
                    THEN Stop("panic", "advance_bounds", rd)
                    ELSE /\ values' = PushSome(values, index, sum.val)
                         /\ index' = sum.val
                         /\ buf_pos' = buf_pos + N(r.size)
                         /\ column_idx' = column_idx + 1
                         /\ reads' = rd
                         /\ UNCHANGED <<inputs, pc, buffer, error, got, lenenc>>

\* lines 72-76
TextReturn ==
    /\ pc = "text_loop" /\ column_idx = Len(columns)
    /\ pc' = "done"
    /\ UNCHANGED <<inputs, buf_pos, buffer, values, index, column_idx, reads,
                   error, got, lenenc>>

(***************************************************************************)
(* Binary protocol.                                                        *)
(***************************************************************************)
\* the header check, with a variant that accepts any header
HeaderOk_any(header) == TRUE

HeaderOk(header) == header = 0

\* lines 79-83: the header byte
BinaryHeader ==
    /\ pc = "start" /\ binary
    /\ LET h == get_u8(payload)
       IN  IF h.outcome = "panic" THEN Stop("panic", "get_u8_bounds", reads)
           ELSE IF ~HeaderOk(h.val) THEN Stop("err", "protocol_err", {0})
           ELSE /\ pc' = "bitmap"
                /\ buf_pos' = 1
                /\ reads' = {0}
                /\ UNCHANGED <<inputs, buffer, values, index, column_idx, error,
                               got, lenenc>>

\* lines 85-92: the bitmap is skipped, the rest becomes the buffer
BinaryBitmap ==
    /\ pc = "bitmap"
    /\ LET null_len == NullLen(Len(columns))
       IN  IF ~CanAdvance(Len(payload) - buf_pos, U(null_len))
           THEN Stop("panic", "advance_bounds", reads)
           ELSE /\ buf_pos' = buf_pos + null_len
                /\ buffer' = Tail0(payload, buf_pos + null_len)
                /\ values' = <<>>
                /\ index' = U(0)
                /\ column_idx' = 0
                /\ reads' = reads \cup Positions(buf_pos + null_len,
                                                 Len(payload) - buf_pos - null_len)
                /\ pc' = "binary_loop"
                /\ UNCHANGED <<inputs, error, got, lenenc>>

\* null_bitmap = &buf[..] taken right after the header
null_bitmap == Tail0(payload, 1)

\* is_null, with a variant that addresses bit col instead of col + 2
ColumnIsNull_unshifted(bitmap, col) == BitSet(bitmap[(col \div 8) + 1], col % 8)

ColumnIsNull(bitmap, col) == IsNull(bitmap, col)

\* lines 94-130: one iteration of the binary loop
BinaryColumn ==
    /\ pc = "binary_loop" /\ column_idx < Len(columns)
    /\ LET rdBit == reads \cup {1 + ((column_idx + 2) \div 8)}
       IN  IF ColumnIsNull(null_bitmap, column_idx)
           THEN /\ values' = PushNone(values)
                /\ column_idx' = column_idx + 1
                /\ reads' = rdBit
                /\ UNCHANGED <<inputs, pc, buf_pos, buffer, index, error, got, lenenc>>
           ELSE LET r == FieldSize(columns[column_idx + 1], buffer, index,
                                   overflow_checks)
                    sum == UAdd(index, r.size)
                IN  IF r.outcome = "panic" THEN Stop("panic", r.why, rdBit)
                    ELSE IF sum.overflow /\ overflow_checks
                    THEN Stop("panic", "overflow", rdBit)
                    ELSE /\ values' = PushSome(values, index, sum.val)
                         /\ index' = sum.val
                         /\ column_idx' = column_idx + 1
                         /\ reads' = rdBit
                         /\ UNCHANGED <<inputs, pc, buf_pos, buffer, error, got,
                                        lenenc>>

\* lines 132-136
BinaryReturn ==
    /\ pc = "binary_loop" /\ column_idx = Len(columns)
    /\ pc' = "done"
    /\ UNCHANGED <<inputs, buf_pos, buffer, values, index, column_idx, reads,
                   error, got, lenenc>>

(***************************************************************************)
(* The Row that decode returned.                                           *)
(***************************************************************************)
RowLen == Len(values)

\* Row::get: None, Some(slice), or a panic when the range does not fit
RowGet(vals, buf, i) ==
    IF i >= Len(vals) THEN [index |-> i, result |-> "panic", slice |-> <<>>]
    ELSE IF vals[i + 1] = None THEN [index |-> i, result |-> "None", slice |-> <<>>]
    ELSE LET r == vals[i + 1][1]
         IN  IF ULe(r.start, r.end) /\ ULe(r.end, U(Len(buf)))
             THEN [index |-> i, result |-> "Some",
                   slice |-> SubSeq(buf, N(r.start) + 1, N(r.end))]
             ELSE [index |-> i, result |-> "panic", slice |-> <<>>]

Get ==
    /\ pc = "done"
    /\ \E i \in 0..Len(values) : got' = RowGet(values, buffer, i)
    /\ UNCHANGED <<inputs, pc, buf_pos, buffer, values, index, column_idx, reads,
                   error, lenenc>>

Next ==
    \/ TextStart
    \/ TextColumn
    \/ TextReturn
    \/ BinaryHeader
    \/ BinaryBitmap
    \/ BinaryColumn
    \/ BinaryReturn
    \/ Get

Spec == Init /\ [][Next]_vars

(***************************************************************************)
(* get_lenenc on its own: the slice is `payload`, the outcome is `lenenc`. *)
(***************************************************************************)
LenencSlices ==
    SeqsUpTo({0, 1, 250, 251, 252, 253, 254, 255}, MaxLen)
    \cup {p \o z : p \in {<<252, 255, 255>>, <<253, 255, 255, 255>>,
                          <<253, 0, 0, 1>>, <<253, 1, 2, 3>>, <<252, 1, 2>>},
                   z \in {<<>>, <<0>>}}
    \cup {<<254>> \o m \o Zeros(k) : m \in SeqsUpTo({1, 255}, 3), k \in 0..8}
    \cup {<<254, a>> \o [i \in 1..6 |-> 255] \o <<b>> : a \in {245, 246, 247, 248, 255},
                                                      b \in {0, 127, 255}}
    \cup {<<254, 1, 2, 3, 4, 5, 6, 7, 8>>}

InitLenenc ==
    /\ payload \in LenencSlices
    /\ overflow_checks \in BOOLEAN
    /\ columns = <<>>
    /\ binary = FALSE
    /\ pc = "lenenc"
    /\ buf_pos = 0
    /\ buffer = <<>>
    /\ values = <<>>
    /\ index = U(0)
    /\ column_idx = 0
    /\ reads = {}
    /\ error = ""
    /\ got = NoGet
    /\ lenenc = NoLenenc

CallGetLenenc ==
    /\ pc = "lenenc"
    /\ lenenc' = get_lenenc(payload, overflow_checks)
    /\ pc' = "lenenc_done"
    /\ UNCHANGED <<inputs, buf_pos, buffer, values, index, column_idx, reads,
                   error, got>>

NextLenenc == CallGetLenenc

SpecLenenc == InitLenenc /\ [][NextLenenc]_vars

(***************************************************************************)
(* Properties.                                                             *)
(***************************************************************************)
Present(k) == values[k] # None

RangeOf(k) == values[k][1]

\* bit k of a byte, by remainders
BitOf(byte, k) == (byte % (2 ^ (k + 1))) >= 2 ^ k

AbsentColumns == {i \in 0..(Len(values) - 1) : values[i + 1] = None}

\* the offset a column starts at: where the last present range before it ended
RECURSIVE OffsetBefore(_)
OffsetBefore(k) ==
    IF k = 1 THEN U(0)
    ELSE IF Present(k - 1) THEN RangeOf(k - 1).end
    ELSE OffsetBefore(k - 1)

\* the total field size of the length-encoded table, as an exact sum
TableSize(buf) ==
    CASE buf[1] < 251 -> UAdd(U(1), U(buf[1]))
      [] buf[1] = 251 -> UAdd(U(1), U(0))
      [] buf[1] = 252 -> UAdd(U(3), read_u16(Tail0(buf, 1)))
      [] buf[1] = 253 -> UAdd(U(4), read_u24(Tail0(buf, 1)))
      [] buf[1] = 254 -> UAdd(U(9), read_u64(Tail0(buf, 1)))
      [] OTHER -> UAdd(U(1), U(buf[1]))

PrefixWidth(b) ==
    CASE b = 252 -> 3 [] b = 253 -> 4 [] b = 254 -> 9 [] OTHER -> 1

EnoughBytes(buf) == buf # <<>> /\ Len(buf) >= PrefixWidth(buf[1])

\* C1: every present range of a returned Row lies inside the Row's buffer
\* (0 <= start <= end <= buffer.len()), so Row::get(i), i < len(), never
\* slices outside the buffer.
C1_RangesWithinBuffer ==
    pc = "done" =>
        /\ \A k \in 1..Len(values) :
              Present(k) => /\ ULe(RangeOf(k).start, RangeOf(k).end)
                            /\ ULe(RangeOf(k).end, U(Len(buffer)))
        /\ (got.index \in 0..(Len(values) - 1)) => got.result # "panic"

\* C2: in binary mode the bitmap is the (n + 9) / 8 bytes after the header,
\* and column i of a returned Row is absent iff bit (i + 2) % 8 of bitmap byte
\* (i + 2) / 8 is set; the 26-column test row decodes, with exactly columns
\* 4, 7, 9, 10, 12, 14, 16, 19, 20, 21 absent.
C2_NullBitmap ==
    /\ (binary /\ pc = "done") =>
          /\ buffer = Tail0(payload, 1 + ((Len(columns) + 9) \div 8))
          /\ \A i \in 0..(Len(columns) - 1) :
                (values[i + 1] = None)
                    <=> BitOf(payload[1 + ((i + 2) \div 8) + 1], (i + 2) % 8)
    /\ (binary /\ payload = NullBitmapTestRow
               /\ columns = NullBitmapTestInput.columns) =>
          /\ pc \notin {"panic", "err"}
          /\ pc = "done" => AbsentColumns = {4, 7, 9, 10, 12, 14, 16, 19, 20, 21}

C2_Witness ==
    /\ pc = "done" /\ binary
    /\ payload = NullBitmapTestRow
    /\ Len(values) = 26
    /\ AbsentColumns = {4, 7, 9, 10, 12, 14, 16, 19, 20, 21}

\* C3: in binary mode a non-zero header byte makes decode return the
\* protocol-violation error: no panic, no Row, and no byte after the header
\* is read.
C3_BadHeader ==
    (binary /\ payload # <<>> /\ payload[1] # 0 /\ pc # "start") =>
        /\ pc = "err"
        /\ error = "protocol_err"
        /\ reads = {0}
        /\ values = <<>>
        /\ buffer = <<>>

C3_Witness ==
    /\ pc = "err" /\ binary
    /\ Len(payload) >= 2 /\ payload[1] = 1
    /\ reads = {0}

\* C4: in text mode the buffer is the whole payload and column k's entry is
\* the present range [offset, offset + size), size being the length-encoded
\* size of the field whose prefix byte is at position offset of the payload,
\* offset starting at 0 and advancing by size.  (Stated for payloads of
\* literal-length prefixes, below 0xFB.)
C4_TextRanges ==
    (~binary /\ pc = "done" /\ \A j \in 1..Len(payload) : payload[j] < 251) =>
        /\ buffer = payload
        /\ \A k \in 1..Len(values) :
              /\ Present(k)
              /\ RangeOf(k).start = OffsetBefore(k)
              /\ RangeOf(k).end =
                    U(N(OffsetBefore(k)) + 1 + payload[N(OffsetBefore(k)) + 1])

\* the size the claim gives a non-NULL binary column at offset `off`
ClaimedSize(type, buf, off) ==
    CASE type = "TINY_INT" -> UAdd(U(1), U(0))
      [] type = "SMALL_INT" -> UAdd(U(2), U(0))
      [] type = "INT" -> UAdd(U(4), U(0))
      [] type = "BIG_INT" -> UAdd(U(8), U(0))
      [] type = "DATE" -> UAdd(U(5), U(0))
      [] type \in TimeTypes -> UAdd(U(1), U(buf[N(off) + 1]))
      [] type \in LenencTypes -> TableSize(Tail0(buf, N(off)))

\* C5: in binary mode the buffer is the payload after the header and the
\* bitmap; a NULL column records absent and leaves the offset alone; a
\* non-NULL column records [offset, offset + size) with size 1, 2, 4, 8, 5,
\* 1 + buffer[offset] or the length-encoded size by type, and advances.
C5_BinaryRanges ==
    (binary /\ pc = "done") =>
        /\ buffer = Tail0(payload, 1 + ((Len(columns) + 9) \div 8))
        /\ \A k \in 1..Len(values) :
              IF BitOf(payload[1 + ((k + 1) \div 8) + 1], (k + 1) % 8)
              THEN ~Present(k)
              ELSE /\ Present(k)
                   /\ RangeOf(k).start = OffsetBefore(k)
                   /\ IsSmall(OffsetBefore(k))
                   /\ LET size == ClaimedSize(columns[k], buffer, OffsetBefore(k))
                          end == UAdd(OffsetBefore(k), size.val)
                      IN  /\ ~size.overflow
                          /\ ~end.overflow
                          /\ RangeOf(k).end = end.val

\* C6: given enough bytes for the prefix, get_lenenc returns 1 + b for
\* b < 0xFB, 1 for 0xFB, 3 + L16 for 0xFC, 4 + L24 for 0xFD, 9 + L64 for 0xFE.
C6_LenencTable ==
    (pc = "lenenc_done" /\ EnoughBytes(payload)) =>
        /\ lenenc.outcome = "ok"
        /\ ~TableSize(payload).overflow
        /\ lenenc.size = TableSize(payload).val

\* C7: a length prefix or column value that runs past the available bytes is
\* reported as an error value; decode never panics on an out-of-bounds
\* access.  (Stated for the accesses row.rs itself makes: the prefix reads of
\* get_lenenc, buffer[index] and &buffer[index..].)
C7_NoBoundsPanic ==
    ~(pc = "panic" /\ error \in {"lenenc_bounds", "index_bounds", "slice_bounds"})

\* C8: in binary mode a column type without a size rule makes decode return
\* an UnsupportedType error: it neither crashes nor produces a Row.
C8_UnsupportedType ==
    (binary /\ \E k \in 1..Len(columns) :
                   columns[k] \notin FixedTypes \cup TimeTypes \cup LenencTypes) =>
        /\ pc # "done"
        /\ ~(pc = "panic" /\ error = "unimplemented")

\* C9: a returned Row has exactly one entry per column, in column order:
\* Row::len() = values.len() = columns.len(); the loops add one entry per
\* column visited.
C9_OneEntryPerColumn ==
    /\ pc \in {"text_loop", "binary_loop"} => Len(values) = column_idx
    /\ pc = "done" => RowLen = Len(columns)

C9_Witness ==
    /\ pc = "done" /\ binary
    /\ Len(columns) = 2 /\ RowLen = 2
    /\ values[1] = None /\ values[2] # None

\* C10: every present range of a returned Row is non-empty (end - start >= 1),
\* so Row::get never yields a zero-length value.
C10_NonEmptyRanges ==
    pc = "done" =>
        /\ \A k \in 1..Len(values) :
              Present(k) => ULt(RangeOf(k).start, RangeOf(k).end)
        /\ got.result = "Some" => got.slice # <<>>

====
